---- MODULE Spec2Model ----
(***************************************************************************)
(* A model of the order-book ingest Lambda (src/src/main.rs) and of the    *)
(* recovery Lambda (src/src/recovery.rs).  Both write snapshot objects to  *)
(* the same bucket; the ingest handler reads frames from a websocket       *)
(* stream, the recovery handler reads one REST depth snapshot.             *)
(*                                                                         *)
(* Prices and quantities are whole numbers here (the strings of the feed   *)
(* are sequences of characters and are parsed digit by digit) and the      *)
(* arithmetic on them is exact: mid_price is kept as twice its value       *)
(* (mid2), a target price as 2 * DepthScale times its value, and           *)
(* imbalance_ratio as the class of the f64 quotient with its numerator and *)
(* denominator.  The bucket keeps a summary of each record (Summary); the  *)
(* whole record is built and examined in SpecCalc.                         *)
(***************************************************************************)
EXTENDS Integers, Sequences, FiniteSets, TLC

VARIABLES
    pc,         \* position of function_handler (main.rs)
    backoff,    \* the local `backoff` of function_handler; 0 before it is declared
    msg,        \* the frame returned by read.next(), while it is being processed
    closed,     \* the stream has delivered the peer's close frame
    outcome,    \* what process_message returned for the last frame
    pending,    \* <<object>> built by process_message and handed to put_object
    store,      \* the bucket "orderbook-data": a set of objects [key, book]
    now,        \* the clock behind Utc::now(), in milliseconds
    streak,     \* history: Err arms taken since the last Ok arm of this invocation
    lastSleep,  \* history: seconds of the last sleep; 0 once an Ok arm has run
    storeErr,   \* history: a put of this invocation has failed
    rpc,        \* position of recovery_handler (recovery.rs)
    resp,       \* <<response>> of the REST depth request
    last_key,   \* <<key>> returned by get_last_key
    gap_ms,     \* <<gap>> computed at recovery.rs:35
    rpending,   \* <<object>> built by process_rest_snapshot for its put_object
    rwrote,     \* history: this recovery invocation has put an object
    calc        \* the record construction of both Lambdas applied to one book

ivars == <<pc, backoff, msg, closed, outcome, pending, streak, lastSleep, storeErr>>
rvars == <<rpc, resp, last_key, gap_ms, rpending, rwrote>>
vars == <<pc, backoff, msg, closed, outcome, pending, store, now, streak,
          lastSleep, storeErr, rpc, resp, last_key, gap_ms, rpending, rwrote,
          calc>>

----------------------------------------------------------------------------
(* Bounds of the model. *)

MaxTick == 1        \* the clock runs over StartTime .. StartTime + MaxTick
MaxLevels == 2      \* levels per side of a depth frame
MaxTextLen == 2     \* characters of a frame that is no JSON object
MaxStreak == 7      \* `streak` saturates here
MaxIdOffset == 1    \* lastUpdateId runs over StartTime + 5000 + (0 .. MaxIdOffset)
StartTime == 3599999

(* Program constants. *)

BackoffFloor == 1
BackoffCeiling == 30
TakeLevels == 20
GapThreshold == 5000
MsPerHour == 3600000
VolLevels == 5          \* levels summed into bid_vol and ask_vol
DepthScale == 10000     \* the depth offsets are multiples of 1 / DepthScale
Depths == <<1, 5, 10, 50, 100>>

MaxTime == StartTime + MaxTick

Min(a, b) == IF a <= b THEN a ELSE b

----------------------------------------------------------------------------
(* Text. A string is a sequence of one-character strings. *)

DigitChars == {"0", "1", "2", "3", "4", "5", "6", "7", "8", "9"}

DigitVal(c) ==
    CASE c = "0" -> 0 [] c = "1" -> 1 [] c = "2" -> 2 [] c = "3" -> 3
      [] c = "4" -> 4 [] c = "5" -> 5 [] c = "6" -> 6 [] c = "7" -> 7
      [] c = "8" -> 8 [] c = "9" -> 9

DigitChar(d) ==
    CASE d = 0 -> "0" [] d = 1 -> "1" [] d = 2 -> "2" [] d = 3 -> "3"
      [] d = 4 -> "4" [] d = 5 -> "5" [] d = 6 -> "6" [] d = 7 -> "7"
      [] d = 8 -> "8" [] d = 9 -> "9"

AllDigits(s) == \A i \in 1..Len(s) : s[i] \in DigitChars

RECURSIVE DecimalValue(_)
DecimalValue(s) ==
    IF s = <<>> THEN 0
    ELSE 10 * DecimalValue(SubSeq(s, 1, Len(s) - 1)) + DigitVal(s[Len(s)])

RECURSIVE Decimal(_)
(* format!("{}", n) of a non-negative integer *)
Decimal(n) ==
    IF n < 10 THEN <<DigitChar(n)>>
    ELSE Append(Decimal(n \div 10), DigitChar(n % 10))

(* str::parse::<f64>() on the strings of the model: digits only, not empty *)
ParseF64(s) ==
    IF s # <<>> /\ AllDigits(s)
    THEN [ok |-> TRUE, val |-> DecimalValue(s)]
    ELSE [ok |-> FALSE, val |-> 0]

----------------------------------------------------------------------------
(* The frames of the feed. *)

TextChars == {"0", "7", "x"}

RawTexts == UNION {[1..n -> TextChars] : n \in 0..MaxTextLen}

GoodLevel == << <<"7">>, <<"7", "0">> >>      \* ["7", "70"]
ShortLevel == << <<"7">> >>                    \* ["7"]
BadLevel == << <<"x">>, <<"7">> >>             \* ["x", "7"]

LevelPool == {GoodLevel, ShortLevel, BadLevel}

SidePool == UNION {[1..n -> LevelPool] : n \in 0..MaxLevels}

(* A frame is a text that is no JSON object, the peer's close frame, or the
   text of a JSON object with the keys `keys` *)
Frames ==
    {[kind |-> "text", text |-> t, keys |-> {}, bids |-> <<>>, asks |-> <<>>] :
        t \in RawTexts}
    \cup {[kind |-> "close", text |-> <<>>, keys |-> {}, bids |-> <<>>, asks |-> <<>>]}
    \cup {[kind |-> "object", text |-> <<>>, keys |-> k, bids |-> <<>>, asks |-> <<>>] :
            k \in {{}, {"bids"}, {"asks"}}}
    \cup {[kind |-> "object", text |-> <<>>, keys |-> {"bids", "asks"},
           bids |-> b, asks |-> a] : b \in SidePool, a \in SidePool}

NoMsg == [kind |-> "none", text |-> <<>>, keys |-> {}, bids |-> <<>>, asks |-> <<>>]

(* serde_json::from_str::<BinanceDepth>(&msg.to_string()): only a JSON object
   with both fields decodes *)
FromStr(m) ==
    IF m.kind = "object" /\ {"bids", "asks"} \subseteq m.keys
    THEN [ok |-> TRUE, bids |-> m.bids, asks |-> m.asks]
    ELSE [ok |-> FALSE, bids |-> <<>>, asks |-> <<>>]

Take(s, n) == SubSeq(s, 1, Min(Len(s), n))

(* |b| (b[0].parse().unwrap(), b[1].parse().unwrap()): panics on a missing
   element and on a string that is no number *)
LevelPanics(l) ==
    \/ Len(l) < 2
    \/ ~ParseF64(l[1]).ok
    \/ ~ParseF64(l[2]).ok

ParseLevel(l) == <<ParseF64(l[1]).val, ParseF64(l[2]).val>>

(* depth.bids.iter().take(20).map(..).collect() *)
ParseLevels(side) ==
    LET taken == Take(side, TakeLevels)
    IN IF \E i \in 1..Len(taken) : LevelPanics(taken[i])
       THEN [panic |-> TRUE, levels |-> <<>>]
       ELSE [panic |-> FALSE,
             levels |-> [i \in 1..Len(taken) |-> ParseLevel(taken[i])]]

----------------------------------------------------------------------------
(* Keys and the bucket. *)

(* year, month, day and hour of an instant, as one number *)
PartitionOf(t) == t \div MsPerHour

(* format!("orderbook/year={}/month={:02}/day={:02}/hour={:02}/{}.avro", ..) *)
FormatKey(t) == [part |-> PartitionOf(t), name |-> Decimal(t)]

(* key.split('/').last().unwrap().trim_end_matches(".avro").parse().unwrap() *)
extract_timestamp(key) == DecimalValue(key.name)

RECURSIVE SumQty(_)
(* .map(|b| b.1).sum() *)
SumQty(levels) ==
    IF levels = <<>> THEN 0 ELSE levels[1][2] + SumQty(Tail(levels))

(* the f64 quotient n / d of whole numbers: 0.0 / 0.0 is NaN, x / 0.0 is
   infinite *)
Div(n, d) ==
    IF d # 0 THEN [class |-> "finite", num |-> n, den |-> d]
    ELSE IF n = 0 THEN [class |-> "NaN", num |-> 0, den |-> 0]
    ELSE [class |-> "inf", num |-> n, den |-> 0]

(* normalize_to_depths testing price <= target on both sides *)
normalize_to_depths_OneTest(levels, mid2, is_ask) ==
    [i \in 1..Len(Depths) |->
        LET target == IF is_ask THEN mid2 * (DepthScale + Depths[i])
                      ELSE mid2 * (DepthScale - Depths[i])
            Counted(l) == l[1] * 2 * DepthScale <= target
        IN [target_price |-> target,
            cumulative_quantity |-> SumQty(SelectSeq(levels, Counted))]]

(* normalize_to_depths of main.rs.  target is 2 * DepthScale times
   mid * (1.0 +- d); a price is compared with it on that scale *)
normalize_to_depths(levels, mid2, is_ask) ==
    [i \in 1..Len(Depths) |->
        LET target == IF is_ask THEN mid2 * (DepthScale + Depths[i])
                      ELSE mid2 * (DepthScale - Depths[i])
            Counted(l) == \/ is_ask /\ l[1] * 2 * DepthScale <= target
                          \/ ~is_ask /\ l[1] * 2 * DepthScale >= target
        IN [target_price |-> target,
            cumulative_quantity |-> SumQty(SelectSeq(levels, Counted))]]

(* the OrderBook process_message builds from parsed, non-empty sides *)
BuildBook(bids, asks, t) ==
    LET bid_vol == SumQty(Take(bids, VolLevels))
        ask_vol == SumQty(Take(asks, VolLevels))
        mid2 == bids[1][1] + asks[1][1]
    IN [timestamp_ms |-> t,
        mid2 |-> mid2,
        spread |-> asks[1][1] - bids[1][1],
        imbalance_ratio |-> Div(bid_vol - ask_vol, bid_vol + ask_vol),
        bids |-> normalize_to_depths(bids, mid2, FALSE),
        asks |-> normalize_to_depths(asks, mid2, TRUE)]

(* What process_message computes from a decoded frame up to the put:
   t1 and t2 are the two readings of the clock, serOk tells whether
   serialize_avro returns Ok *)
Snapshot(bidsRaw, asksRaw, t1, t2, serOk) ==
    LET b == ParseLevels(bidsRaw)
        a == ParseLevels(asksRaw)
    IN IF b.panic \/ a.panic THEN [tag |-> "panic", obj |-> <<>>]
       ELSE IF b.levels = <<>> \/ a.levels = <<>> THEN [tag |-> "panic", obj |-> <<>>]
       ELSE IF ~serOk THEN [tag |-> "AvroError", obj |-> <<>>]
       ELSE [tag |-> "put",
             obj |-> <<[key |-> FormatKey(t2), book |-> BuildBook(b.levels, a.levels, t1)]>>]

process_message(m, t1, t2, serOk) ==
    LET d == FromStr(m)
    IN IF ~d.ok THEN [tag |-> "JsonError", obj |-> <<>>]
       ELSE Snapshot(d.bids, d.asks, t1, t2, serOk)

(* The bucket of the model keeps of each record its timestamp, mid and
   spread: what put_object is handed, as the bucket files it *)
Summary(book) ==
    [timestamp_ms |-> book.timestamp_ms, mid2 |-> book.mid2, spread |-> book.spread]

Filed(objs) ==
    [i \in 1..Len(objs) |-> [key |-> objs[i].key, book |-> Summary(objs[i].book)]]

(* put_object: the object replaces whatever the key held *)
PutObject(s, o) == {x \in s : x.key # o.key} \cup {o}

Keys(s) == {x.key : x \in s}

(* no book is under construction *)
NoCalc == [bids |-> <<>>, asks |-> <<>>, ingest |-> <<>>, rest |-> <<>>]

----------------------------------------------------------------------------
Init ==
    /\ pc = "idle"
    /\ backoff = 0
    /\ msg = NoMsg
    /\ closed = FALSE
    /\ outcome = "none"
    /\ pending = <<>>
    /\ store = {}
    /\ now = StartTime
    /\ streak = 0
    /\ lastSleep = 0
    /\ storeErr = FALSE
    /\ rpc = "idle"
    /\ resp = <<>>
    /\ last_key = <<>>
    /\ gap_ms = <<>>
    /\ rpending = <<>>
    /\ rwrote = FALSE
    /\ calc = NoCalc

(* the clock advances *)
Tick ==
    /\ now < MaxTime
    /\ now' = now + 1
    /\ UNCHANGED <<calc, ivars, rvars, store>>

----------------------------------------------------------------------------
(* The ingest Lambda. *)

(* run(service_fn(function_handler)): the handler is called for an event;
   after it has returned or panicked it is called again for the next event *)
Invoke ==
    /\ pc \in {"idle", "returned_ok", "returned_err", "panicked"}
    /\ pc' = "connecting"
    /\ backoff' = 0
    /\ msg' = NoMsg
    /\ closed' = FALSE
    /\ outcome' = "none"
    /\ pending' = <<>>
    /\ streak' = 0
    /\ storeErr' = FALSE
    /\ UNCHANGED <<calc, lastSleep, store, now, rvars>>

(* ConnectOk without `let mut backoff = 1` *)
ConnectOk_NoReset ==
    /\ pc = "connecting"
    /\ pc' = "read"
    /\ UNCHANGED <<calc, backoff, msg, closed, outcome, pending, streak, lastSleep,
                   storeErr, store, now, rvars>>

(* connect_async(url).await? succeeds; let mut backoff = 1 *)
ConnectOk ==
    /\ pc = "connecting"
    /\ pc' = "read"
    /\ backoff' = BackoffFloor
    /\ UNCHANGED <<calc, msg, closed, outcome, pending, streak, lastSleep, storeErr,
                   store, now, rvars>>

(* connect_async(url).await? fails: the handler returns the error *)
ConnectErr ==
    /\ pc = "connecting"
    /\ pc' = "returned_err"
    /\ UNCHANGED <<calc, backoff, msg, closed, outcome, pending, streak, lastSleep,
                   storeErr, store, now, rvars>>

(* read.next().await yields a frame, one of `pool`; nothing follows the
   peer's close frame *)
ReadFrame(pool) ==
    /\ pc = "read"
    /\ ~closed
    /\ \E f \in pool :
         /\ msg' = f
         /\ closed' = (f.kind = "close")
    /\ pc' = "process"
    /\ outcome' = "none"
    /\ UNCHANGED <<calc, backoff, pending, streak, lastSleep, storeErr, store, now, rvars>>

(* read.next().await yields Some(Err(e)): msg? returns the error *)
ReadErr ==
    /\ pc = "read"
    /\ pc' = "returned_err"
    /\ outcome' = "none"
    /\ UNCHANGED <<calc, backoff, msg, closed, pending, streak, lastSleep, storeErr,
                   store, now, rvars>>

(* read.next().await yields None: the loop ends and the handler returns Ok(()) *)
ReadEnd ==
    /\ pc = "read"
    /\ pc' = "returned_ok"
    /\ outcome' = "none"
    /\ UNCHANGED <<calc, backoff, msg, closed, pending, streak, lastSleep, storeErr,
                   store, now, rvars>>

(* Where the handler goes with what process_message made of the frame *)
AfterProcess(r) ==
    CASE r.tag = "put" -> "put"
      [] r.tag = "panic" -> "panicked"
      [] OTHER -> "sleep"

(* Process going on to put_object although serialize_avro returned Err *)
Process_PutsUnencoded ==
    /\ pc = "process"
    /\ \E t2 \in now..MaxTime, serOk \in BOOLEAN :
         LET r == process_message(msg, now, t2, TRUE)
         IN /\ pc' = AfterProcess(r)
            /\ pending' = Filed(r.obj)
            /\ outcome' = IF r.tag = "JsonError" THEN r.tag
                          ELSE IF ~serOk /\ r.tag = "put" THEN "AvroError"
                          ELSE "none"
            /\ now' = t2
    /\ msg' = NoMsg
    /\ UNCHANGED <<calc, backoff, closed, streak, lastSleep, storeErr, store, rvars>>

(* Process handing the put to a spawned task and reading on *)
Process_SpawnsPut ==
    /\ pc = "process"
    /\ \E t2 \in now..MaxTime, serOk \in BOOLEAN :
         LET r == process_message(msg, now, t2, serOk)
         IN /\ pc' = IF r.tag = "put" THEN "read" ELSE AfterProcess(r)
            /\ pending' = Filed(r.obj)
            /\ outcome' = IF r.tag \in {"JsonError", "AvroError"} THEN r.tag ELSE "none"
            /\ now' = t2
    /\ msg' = NoMsg
    /\ UNCHANGED <<calc, backoff, closed, streak, lastSleep, storeErr, store, rvars>>

(* process_message up to the put_object call; the clock is read twice and
   may advance in between *)
Process ==
    /\ pc = "process"
    /\ \E t2 \in now..MaxTime, serOk \in BOOLEAN :
         LET r == process_message(msg, now, t2, serOk)
         IN /\ pc' = AfterProcess(r)
            /\ pending' = Filed(r.obj)
            /\ outcome' = IF r.tag \in {"JsonError", "AvroError"} THEN r.tag ELSE "none"
            /\ now' = t2
    /\ msg' = NoMsg
    /\ UNCHANGED <<calc, backoff, closed, streak, lastSleep, storeErr, store, rvars>>

(* put_object succeeds; process_message returns Ok and the Ok arm runs *)
PutOk ==
    /\ pc = "put"
    /\ store' = PutObject(store, pending[1])
    /\ pending' = <<>>
    /\ outcome' = "Ok"
    /\ backoff' = BackoffFloor
    /\ streak' = 0
    /\ lastSleep' = 0
    /\ pc' = "read"
    /\ UNCHANGED <<calc, msg, closed, storeErr, now, rvars>>

(* PutErr with the error returned from the handler (process_message(..).await?) *)
PutErr_Returns ==
    /\ pc = "put"
    /\ pending' = <<>>
    /\ outcome' = "StoreError"
    /\ storeErr' = TRUE
    /\ pc' = "returned_err"
    /\ UNCHANGED <<calc, backoff, msg, closed, streak, lastSleep, store, now, rvars>>

(* put_object fails; process_message returns the error and the Err arm runs *)
PutErr ==
    /\ pc = "put"
    /\ pending' = <<>>
    /\ outcome' = "StoreError"
    /\ storeErr' = TRUE
    /\ pc' = "sleep"
    /\ UNCHANGED <<calc, backoff, msg, closed, streak, lastSleep, store, now, rvars>>

(* NextBackoff without the ceiling *)
NextBackoff_NoCeiling(b) == b * 2

(* backoff = (backoff * 2).min(30) *)
NextBackoff(b) == Min(b * 2, BackoffCeiling)

(* The Err arm: sleep(backoff), then the doubling; the loop reads on *)
Sleep ==
    /\ pc = "sleep"
    /\ lastSleep' = backoff
    /\ backoff' = NextBackoff(backoff)
    /\ streak' = Min(streak + 1, MaxStreak)
    /\ pc' = "read"
    /\ UNCHANGED <<calc, msg, closed, outcome, pending, storeErr, store, now, rvars>>

IngestNext(pool) ==
    \/ Invoke \/ ConnectOk \/ ConnectErr
    \/ ReadFrame(pool) \/ ReadErr \/ ReadEnd
    \/ Process \/ PutOk \/ PutErr \/ Sleep

Next == Tick \/ IngestNext(Frames)

----------------------------------------------------------------------------
(* The recovery Lambda. *)

RestSides == {<<>>, <<GoodLevel>>}

UpdateIds == {StartTime + GapThreshold + d : d \in 0..MaxIdOffset}

(* BinanceRestDepth *)
RestResponses ==
    {[bids |-> b, asks |-> a, last_update_id |-> u] :
        b \in RestSides, a \in RestSides, u \in UpdateIds}

RECURSIVE LexLess(_, _)
(* a < b for the file names a ++ ".avro" and b ++ ".avro", compared as
   strings: '.' sorts before every digit *)
LexLess(a, b) ==
    IF a = <<>> THEN b # <<>>
    ELSE IF b = <<>> THEN FALSE
    ELSE IF a[1] # b[1] THEN DigitVal(a[1]) < DigitVal(b[1])
    ELSE LexLess(Tail(a), Tail(b))

(* the order in which list_objects_v2 returns keys *)
KeyLess(k1, k2) ==
    \/ k1.part < k2.part
    \/ k1.part = k2.part /\ LexLess(k1.name, k2.name)

(* list_objects_v2().prefix("orderbook/").max_keys(1): the first key listed *)
FirstListed(s) == CHOOSE k \in Keys(s) : \A k2 \in Keys(s) : k2 = k \/ KeyLess(k, k2)

(* GapDetected with >= for > *)
GapDetected_AtLeast(gap) == gap >= GapThreshold

(* if gap_ms > 5000 *)
GapDetected(gap) == gap > GapThreshold

(* run(service_fn(recovery_handler)): the handler is called for an event *)
RInvoke ==
    /\ rpc \in {"idle", "returned_ok", "returned_err", "panicked", "abandoned"}
    /\ rpc' = "fetch"
    /\ resp' = <<>>
    /\ last_key' = <<>>
    /\ gap_ms' = <<>>
    /\ rpending' = <<>>
    /\ rwrote' = FALSE
    /\ UNCHANGED <<calc, ivars, store, now>>

(* reqwest::get(url).await?.json::<BinanceRestDepth>().await? succeeds *)
RFetchOk ==
    /\ rpc = "fetch"
    /\ \E r \in RestResponses : resp' = <<r>>
    /\ rpc' = "list"
    /\ UNCHANGED <<calc, last_key, gap_ms, rpending, rwrote, ivars, store, now>>

(* RFetchErr going on with a default response and persisting it *)
RFetchErr_Persists ==
    /\ rpc = "fetch"
    /\ store' = PutObject(store, [key |-> FormatKey(now),
                                  book |-> [timestamp_ms |-> now, mid2 |-> 0, spread |-> 0]])
    /\ rwrote' = TRUE
    /\ rpc' = "returned_err"
    /\ UNCHANGED <<calc, resp, last_key, gap_ms, rpending, ivars, now>>

(* the request or the decoding of its body fails *)
RFetchErr ==
    /\ rpc = "fetch"
    /\ rpc' = "returned_err"
    /\ UNCHANGED <<calc, resp, last_key, gap_ms, rpending, rwrote, ivars, store, now>>

(* the invocation is stopped while the request is in flight: the future is
   dropped at the await *)
RAbandon ==
    /\ rpc = "fetch"
    /\ rpc' = "abandoned"
    /\ UNCHANGED <<calc, resp, last_key, gap_ms, rpending, rwrote, ivars, store, now>>

(* RestParseLevels without take(20) *)
RestParseLevels_NoTake(side) ==
    IF \E i \in 1..Len(side) :
            Len(side[i]) < 2 \/ ~ParseF64(side[i][1]).ok \/ ~ParseF64(side[i][2]).ok
    THEN [panic |-> TRUE, levels |-> <<>>]
    ELSE [panic |-> FALSE,
          levels |-> [i \in 1..Len(side) |->
                         <<ParseF64(side[i][1]).val, ParseF64(side[i][2]).val>>]]

(* depth.bids.iter().take(20).map(..).collect() in process_rest_snapshot *)
RestParseLevels(side) ==
    LET taken == SubSeq(side, 1, Min(Len(side), TakeLevels))
    IN IF \E i \in 1..Len(taken) :
            Len(taken[i]) < 2 \/ ~ParseF64(taken[i][1]).ok \/ ~ParseF64(taken[i][2]).ok
       THEN [panic |-> TRUE, levels |-> <<>>]
       ELSE [panic |-> FALSE,
             levels |-> [i \in 1..Len(taken) |->
                            <<ParseF64(taken[i][1]).val, ParseF64(taken[i][2]).val>>]]

RECURSIVE RestCumQty(_, _, _)
(* the loop `for (price, qty) in levels` of normalize_to_depths in
   recovery.rs, for one target *)
RestCumQty(levels, target, is_ask) ==
    IF levels = <<>> THEN 0
    ELSE LET price == levels[1][1] * 2 * DepthScale
             qty == levels[1][2]
             rest == RestCumQty(Tail(levels), target, is_ask)
         IN IF (is_ask /\ price <= target) \/ (~is_ask /\ price >= target)
            THEN qty + rest
            ELSE rest

(* rest_normalize_to_depths with mid * (1.0 + d) on both sides *)
rest_normalize_to_depths_SameSign(levels, mid2, is_ask) ==
    [i \in 1..Len(Depths) |->
        LET target == mid2 * (DepthScale + Depths[i])
        IN [target_price |-> target,
            cumulative_quantity |-> RestCumQty(levels, target, is_ask)]]

(* normalize_to_depths of recovery.rs *)
rest_normalize_to_depths(levels, mid2, is_ask) ==
    [i \in 1..Len(Depths) |->
        LET target == IF is_ask THEN mid2 * (DepthScale + Depths[i])
                      ELSE mid2 * (DepthScale - Depths[i])
        IN [target_price |-> target,
            cumulative_quantity |-> RestCumQty(levels, target, is_ask)]]

(* the OrderBook process_rest_snapshot builds from parsed, non-empty sides *)
RestBuildBook(bids, asks, t) ==
    LET bid_vol == SumQty(SubSeq(bids, 1, Min(Len(bids), VolLevels)))
        ask_vol == SumQty(SubSeq(asks, 1, Min(Len(asks), VolLevels)))
    IN [timestamp_ms |-> t,
        bids |-> rest_normalize_to_depths(bids, bids[1][1] + asks[1][1], FALSE),
        asks |-> rest_normalize_to_depths(asks, bids[1][1] + asks[1][1], TRUE),
        spread |-> asks[1][1] - bids[1][1],
        mid2 |-> bids[1][1] + asks[1][1],
        imbalance_ratio |-> Div(bid_vol - ask_vol, bid_vol + ask_vol)]

(* process_rest_snapshot up to its put_object call: t1 and t2 are the two
   readings of the clock, serOk tells whether serialize_avro returns Ok *)
process_rest_snapshot(depth, t1, t2, serOk) ==
    LET b == RestParseLevels(depth.bids)
        a == RestParseLevels(depth.asks)
    IN IF b.panic \/ a.panic THEN [tag |-> "panic", obj |-> <<>>]
       ELSE IF b.levels = <<>> \/ a.levels = <<>> THEN [tag |-> "panic", obj |-> <<>>]
       ELSE IF ~serOk THEN [tag |-> "AvroError", obj |-> <<>>]
       ELSE [tag |-> "put",
             obj |-> <<[key |-> FormatKey(t2),
                        book |-> RestBuildBook(b.levels, a.levels, t1)]>>]

(* Where recovery_handler goes with what process_rest_snapshot made *)
AfterSnapshot(r) ==
    CASE r.tag = "put" -> "put"
      [] r.tag = "panic" -> "panicked"
      [] OTHER -> "returned_err"

(* get_last_key returns a key; the gap is computed and, if it is detected,
   process_rest_snapshot runs up to its put_object call *)
RListOk ==
    /\ rpc = "list"
    /\ store # {}
    /\ LET k == FirstListed(store)
           gap == resp[1].last_update_id - extract_timestamp(k)
       IN /\ last_key' = <<k>>
          /\ gap_ms' = <<gap>>
          /\ IF GapDetected(gap)
             THEN \E t2 \in now..MaxTime, serOk \in BOOLEAN :
                    LET r == process_rest_snapshot(resp[1], now, t2, serOk)
                    IN /\ rpc' = AfterSnapshot(r)
                       /\ rpending' = Filed(r.obj)
                       /\ now' = t2
             ELSE /\ rpc' = "returned_ok"
                  /\ UNCHANGED <<calc, rpending, now>>
    /\ UNCHANGED <<calc, resp, rwrote, ivars, store>>

(* the listing is empty: resp.contents().first().unwrap() panics *)
RListEmpty ==
    /\ rpc = "list"
    /\ store = {}
    /\ rpc' = "panicked"
    /\ UNCHANGED <<calc, resp, last_key, gap_ms, rpending, rwrote, ivars, store, now>>

(* list_objects_v2 fails *)
RListErr ==
    /\ rpc = "list"
    /\ rpc' = "returned_err"
    /\ UNCHANGED <<calc, resp, last_key, gap_ms, rpending, rwrote, ivars, store, now>>

(* put_object succeeds and recovery_handler returns Ok(()) *)
RPutOk ==
    /\ rpc = "put"
    /\ store' = PutObject(store, rpending[1])
    /\ rwrote' = TRUE
    /\ rpc' = "returned_ok"
    /\ UNCHANGED <<calc, resp, last_key, gap_ms, rpending, ivars, now>>

(* put_object fails and recovery_handler returns the error *)
RPutErr ==
    /\ rpc = "put"
    /\ rpc' = "returned_err"
    /\ UNCHANGED <<calc, resp, last_key, gap_ms, rpending, rwrote, ivars, store, now>>

RecoveryNext ==
    \/ RInvoke \/ RFetchOk \/ RFetchErr \/ RAbandon
    \/ RListOk \/ RListEmpty \/ RListErr
    \/ RPutOk \/ RPutErr

(* a depth frame with one good level on each side *)
GoodFrames ==
    {[kind |-> "object", text |-> <<>>, keys |-> {"bids", "asks"},
      bids |-> <<GoodLevel>>, asks |-> <<GoodLevel>>]}

NextBoth == Tick \/ IngestNext(GoodFrames) \/ RecoveryNext

(* The ingest Lambda alone, fed every frame *)
Spec == Init /\ [][Next]_vars

(* Both Lambdas on one bucket, the feed delivering well-formed frames *)
SpecBoth == Init /\ [][NextBoth]_vars

----------------------------------------------------------------------------
(* What the properties below say about a frame. *)

IsDigitFrame(m) == m.kind = "text" /\ m.text # <<>> /\ AllDigits(m.text)

LevelOk(l) == ~LevelPanics(l)

(* the levels of a side that remain when the malformed ones are dropped *)
Kept(side) == SelectSeq(Take(side, TakeLevels), LevelOk)

HasBadLevel(m) ==
    /\ FromStr(m).ok
    /\ \/ Kept(m.bids) # Take(m.bids, TakeLevels)
       \/ Kept(m.asks) # Take(m.asks, TakeLevels)

(* invalid JSON, a JSON value of the wrong shape, or a bad level field *)
Malformed(m) ==
    /\ m.kind \in {"text", "object"}
    /\ ~FromStr(m).ok \/ HasBadLevel(m)

EmptyAfterParsing(m) ==
    /\ FromStr(m).ok
    /\ Kept(m.bids) = <<>> \/ Kept(m.asks) = <<>>

(* the step in which process_message deals with the frame `msg` *)
Processes == pc = "process" /\ pc' # "process"

(* 1, 2, 4, 8, 16, 30, 30, ..: the seconds slept in the k-th consecutive failure *)
SleepOf(k) == Min(2 ^ (k - 1), BackoffCeiling)

InLoop == pc \in {"read", "process", "put", "sleep"}

----------------------------------------------------------------------------
(* C1: the ingest handler never ends on a transport failure: a failed
   connection attempt, a transport error while streaming and the end of the
   stream lead back to connecting, so (no shutdown being signalled) the
   handler is never in a returned state. *)
C1_NeverTerminates == pc \notin {"returned_ok", "returned_err"}

(* C2: inside the ingest loop backoff lies in 1..30; the k-th consecutive
   failure sleeps 1, 2, 4, 8, 16, 30, 30, .. seconds, which is the backoff it
   found, and leaves backoff at min(2 * that, 30). *)
C2_BackoffSeries ==
    /\ InLoop => backoff \in BackoffFloor..BackoffCeiling
    /\ InLoop /\ streak = 0 => backoff = BackoffFloor
    /\ InLoop /\ streak > 0 =>
         /\ lastSleep = SleepOf(streak)
         /\ backoff = Min(2 * lastSleep, BackoffCeiling)

(* C2 witness: the sixth consecutive failure has slept 30 seconds, not 32 *)
C2_Witness == pc = "read" /\ streak = 6 /\ lastSleep = 30 /\ backoff = 30

(* C3: when a connection attempt succeeds and the handler enters its read
   loop, backoff is at its floor of 1. *)
C3_ResetOnConnect ==
    [][pc = "connecting" /\ pc' = "read" => backoff' = BackoffFloor]_vars

(* C3 witness: connected again, at the floor, after an invocation whose
   failures had taken the sleep to the ceiling *)
C3_Witness ==
    /\ pc = "read" /\ outcome = "none" /\ streak = 0
    /\ backoff = BackoffFloor
    /\ lastSleep = BackoffCeiling

(* C4: processing a malformed message causes no sleep, leaves backoff as it
   is and takes the handler straight back to reading the next frame. *)
C4_MalformedSkipped ==
    [][Processes /\ Malformed(msg) =>
         pc' = "read" /\ backoff' = backoff /\ lastSleep' = lastSleep]_vars

(* C5: a close frame of the peer never ends the ingest run in the clean
   terminal state: the handler does not return Ok after it. *)
C5_CloseNotTerminal == ~(closed /\ pc = "returned_ok")

(* C6: a frame of decimal digits only is skipped: no error is reported for
   it, nothing is written, and the handler reads the next frame. *)
C6_DigitsSkipped ==
    [][Processes /\ IsDigitFrame(msg) =>
         /\ pc' = "read"
         /\ outcome' \notin {"JsonError", "AvroError", "StoreError"}
         /\ store' = store]_vars

(* C7: a depth message that decodes with an empty bid list or an empty ask
   list (its other levels all well formed) is skipped: the handler reads the
   next frame and the metrics, which read bids[0] and asks[0], are never
   computed. *)
C7_EmptySideSkipped ==
    [][Processes /\ EmptyAfterParsing(msg) /\ ~HasBadLevel(msg) => pc' = "read"]_vars

(* C8: a level with fewer than two fields or with a field that is no number
   is dropped alone: when both sides keep a level the handler does not end
   and the remaining levels go on to be persisted. *)
C8_BadLevelDropped ==
    [][Processes /\ HasBadLevel(msg) /\ ~EmptyAfterParsing(msg) =>
         pc' \in {"put", "sleep"}]_vars

(* C9: a failed put does not end the ingest loop: the handler logs, sleeps
   and reads on, and a later frame that reaches its put and succeeds is in
   the bucket. *)
C9_StoreErrorContinues ==
    /\ [](outcome = "StoreError" => pc \in {"sleep", "read"})
    /\ [][storeErr /\ pc = "put" /\ outcome' = "Ok" =>
            pending[1] \in store' /\ pc' = "read"]_vars

(* C9 witness: a frame has been persisted after an earlier put of the same
   invocation failed *)
C9_Witness == storeErr /\ outcome = "Ok" /\ pc = "read" /\ store # {}

(* C10: a recovery invocation writes only when the gap exceeds 5000 ms, and
   one that returns Ok has written exactly when the gap exceeds 5000 ms. *)
C10_GapDecidesWrite ==
    /\ rwrote => gap_ms # <<>> /\ gap_ms[1] > GapThreshold
    /\ rpc = "put" => gap_ms[1] > GapThreshold
    /\ rpc = "returned_ok" => (rwrote <=> gap_ms[1] > GapThreshold)

(* C10 witness: a gap of 5001 ms has been backfilled *)
C10_Witness == rpc = "returned_ok" /\ rwrote /\ gap_ms = <<GapThreshold + 1>>

(* C10 as stated: a recovery invocation persists a backfill record if and
   only if the gap exceeds 5000 ms; here for every invocation that has
   returned after finding no gap or after building its record. *)
C10_WritesIffGap ==
    /\ rpc \in {"returned_ok", "returned_err"}
    /\ gap_ms # <<>>
    /\ gap_ms[1] > GapThreshold => rpending # <<>>
    => (rwrote <=> gap_ms[1] > GapThreshold)

----------------------------------------------------------------------------
(* The record construction on its own: one book of raw levels is given to
   process_message (as a depth frame) and to process_rest_snapshot (as a
   REST response) at the same reading of the clock. *)

MaxBookLevels == 2      \* levels per side of the books drawn, the deep sides apart

(* prices around a mid of 10000, at the edge of the widest depth, and
   quantities that can be zero *)
BookPrices == {9900, 10000, 10100}
BookQtys == {0, 2}

BookLevels == {<<Decimal(p), Decimal(q)>> : p \in BookPrices, q \in BookQtys}

(* a side longer than take(20) keeps: TakeLevels equal levels followed by
   one that cannot be parsed *)
DeepSide(l) == [i \in 1..(TakeLevels + 1) |-> IF i <= TakeLevels THEN l ELSE ShortLevel]

BookSides ==
    UNION {[1..n -> BookLevels] : n \in 0..MaxBookLevels}
        \cup {DeepSide(l) : l \in BookLevels}

(* the websocket frame carrying the book *)
DepthFrame(b, a) ==
    [kind |-> "object", text |-> <<>>, keys |-> {"bids", "asks"}, bids |-> b, asks |-> a]

(* the REST response carrying the book *)
DepthResponse(b, a, u) == [bids |-> b, asks |-> a, last_update_id |-> u]

InitCalc ==
    /\ pc = "idle"
    /\ backoff = 0
    /\ msg = NoMsg
    /\ closed = FALSE
    /\ outcome = "none"
    /\ pending = <<>>
    /\ store = {}
    /\ now = StartTime
    /\ streak = 0
    /\ lastSleep = 0
    /\ storeErr = FALSE
    /\ rpc = "idle"
    /\ resp = <<>>
    /\ last_key = <<>>
    /\ gap_ms = <<>>
    /\ rpending = <<>>
    /\ rwrote = FALSE
    /\ \E b \in BookSides, a \in BookSides :
         calc = [bids |-> b, asks |-> a, ingest |-> <<>>, rest |-> <<>>]

(* process_message applied to the book *)
CalcIngest ==
    /\ calc.ingest = <<>>
    /\ calc' = [calc EXCEPT !.ingest =
                   <<process_message(DepthFrame(calc.bids, calc.asks), now, now, TRUE)>>]
    /\ UNCHANGED <<ivars, rvars, store, now>>

(* process_rest_snapshot applied to the book *)
CalcRest ==
    /\ calc.rest = <<>>
    /\ calc' = [calc EXCEPT !.rest =
                   <<process_rest_snapshot(DepthResponse(calc.bids, calc.asks, now),
                                           now, now, TRUE)>>]
    /\ UNCHANGED <<ivars, rvars, store, now>>

NextCalc == CalcIngest \/ CalcRest

(* Both record constructions over the books of BookSides *)
SpecCalc == InitCalc /\ [][NextCalc]_vars

----------------------------------------------------------------------------
(* Does the response hold one good level on each side *)
GoodResponse(r) == r.bids # <<>> /\ r.asks # <<>>

(* C11: when recovery lists a store that holds no key, the gap counts as
   infinite: with a usable REST snapshot the invocation goes on to its
   put_object call (or returns an error of the listing or the encoding) and
   does not abort *)
C11_ColdStoreBackfills ==
    [][rpc = "list" /\ store = {} /\ GoodResponse(resp[1]) /\ rpc' # "list"
         => rpc' \in {"put", "returned_err"}]_vars

----------------------------------------------------------------------------
(* Recovery after an outage: the ingest Lambda wrote its last record
   2 * GapThreshold ms before StartTime and is down; the REST response
   carries the current time as its reference. *)

LastSeen == StartTime - (GapThreshold + GapThreshold)

(* the record the ingest Lambda left behind *)
LastRecord ==
    [key |-> FormatKey(LastSeen),
     book |-> Summary(BuildBook(<<ParseLevel(GoodLevel)>>, <<ParseLevel(GoodLevel)>>,
                                LastSeen))]

InitOutage ==
    /\ pc = "idle"
    /\ backoff = 0
    /\ msg = NoMsg
    /\ closed = FALSE
    /\ outcome = "none"
    /\ pending = <<>>
    /\ store = {LastRecord}
    /\ now = StartTime
    /\ streak = 0
    /\ lastSleep = 0
    /\ storeErr = FALSE
    /\ rpc = "idle"
    /\ resp = <<>>
    /\ last_key = <<>>
    /\ gap_ms = <<>>
    /\ rpending = <<>>
    /\ rwrote = FALSE
    /\ calc = NoCalc

(* the request succeeds and resp.last_update_id is the time of the request *)
RFetchNow ==
    /\ rpc = "fetch"
    /\ \E b \in RestSides, a \in RestSides :
         resp' = <<[bids |-> b, asks |-> a, last_update_id |-> now]>>
    /\ rpc' = "list"
    /\ UNCHANGED <<calc, last_key, gap_ms, rpending, rwrote, ivars, store, now>>

NextOutage ==
    \/ Tick
    \/ RInvoke \/ RFetchNow \/ RFetchErr
    \/ RListOk \/ RListErr
    \/ RPutOk \/ RPutErr

(* The recovery Lambda alone, run again and again after an outage *)
SpecOutage == InitOutage /\ [][NextOutage]_vars

(* a backfill record is in the store *)
Backfilled == \E o \in store : extract_timestamp(o.key) >= StartTime

(* C12: once an invocation has written its backfill record, an invocation
   that follows it immediately (the clock has moved by MaxTick ms at most)
   finds no gap and issues no put_object *)
C12_SecondRunWritesNothing == Backfilled => rpc # "put"

----------------------------------------------------------------------------
(* the largest timestamp among the keys of a non-empty store *)
MaxTimestamp(s) ==
    CHOOSE t \in {extract_timestamp(k) : k \in Keys(s)} :
        \A k \in Keys(s) : extract_timestamp(k) <= t

(* C13: the timestamp get_last_key hands to the gap computation is the
   largest timestamp among all keys the store holds at the listing *)
C13_LastKeyIsNewest ==
    [][rpc = "list" /\ last_key' # <<>>
         => extract_timestamp(last_key'[1]) = MaxTimestamp(store)]_vars

----------------------------------------------------------------------------
(* a step of the recovery handler *)
RecoveryStep == rvars' # rvars

(* C14: a recovery invocation writes only after its REST request has
   succeeded and process_rest_snapshot has built the record, and the object
   it puts is that record; an invocation whose request fails or that is
   stopped during the request leaves the store as it was *)
C14_WriteAfterFetch ==
    /\ [](rwrote => resp # <<>> /\ rpending # <<>>)
    /\ [](rpc \in {"fetch", "abandoned"} => ~rwrote)
    /\ [][RecoveryStep /\ rpc = "fetch" => store' = store]_vars
    /\ [][RecoveryStep /\ store' # store
            => /\ rpc = "put"
               /\ resp # <<>>
               /\ rpending # <<>>
               /\ store' = PutObject(store, rpending[1])]_vars

C14_Witness ==
    /\ rpc = "returned_ok"
    /\ rwrote
    /\ resp # <<>>
    /\ rpending # <<>>
    /\ rpending[1] \in store
    /\ rpending[1].book.timestamp_ms = now

----------------------------------------------------------------------------
(* C15: the ingest handler has one frame in hand at a time.  A frame is
   read only when no frame is being processed and no put is outstanding;
   there is never more than one object handed to put_object; and each
   change of the store is the put of the one frame in hand, so objects
   reach the store in the order their frames arrived *)
C15_OneFrameAtATime ==
    /\ [](Len(pending) <= 1)
    /\ [](pending # <<>> <=> pc = "put")
    /\ [](msg # NoMsg <=> pc = "process")
    /\ [][pc' = "process" /\ pc # "process"
            => pc = "read" /\ pending = <<>> /\ msg = NoMsg]_vars
    /\ [][store' # store
            => /\ pc = "put"
               /\ store' = PutObject(store, pending[1])
               /\ pending' = <<>>
               /\ pc' = "read"]_vars

(* a second frame is in hand after the first one's object has been stored *)
C15_Witness ==
    /\ pc = "process"
    /\ msg \in GoodFrames
    /\ pending = <<>>
    /\ outcome = "none"
    /\ store # {}

----------------------------------------------------------------------------
(* C16: every stored object's key carries the timestamp_ms of the record it
   holds, and the partition (year, month, day, hour) of the key is the one
   of that same instant; for objects of the ingest path and of the recovery
   path *)
C16_KeyMatchesRecord ==
    \A o \in store :
        /\ extract_timestamp(o.key) = o.book.timestamp_ms
        /\ o.key.part = PartitionOf(o.book.timestamp_ms)

----------------------------------------------------------------------------
(* C17: the store is append-only and uniquely keyed: whenever the ingest
   handler or the recovery handler completes a put_object, the key of the
   object was not in the store before, whatever the interleaving of the two *)
C17_PutTargetsFreshKey ==
    /\ [][pc = "put" /\ pc' = "read" => pending[1].key \notin Keys(store)]_vars
    /\ [][rpc = "put" /\ rpc' = "returned_ok" => rpending[1].key \notin Keys(store)]_vars

----------------------------------------------------------------------------
(* what the two constructions have returned for the book of calc *)
CalcResults ==
    {calc.ingest[i] : i \in 1..Len(calc.ingest)} \cup {calc.rest[i] : i \in 1..Len(calc.rest)}

(* the records they have built *)
CalcBooks == {r.obj[1].book : r \in {x \in CalcResults : x.tag = "put"}}

(* the quantity of the first VolLevels levels of a raw side *)
Vol5(side) == SumQty(Take(ParseLevels(side).levels, VolLevels))

(* C18: in every record built, by process_message or by
   process_rest_snapshot, imbalance_ratio is a number between -1 and 1, and
   it is 0 when the first five levels of both sides carry no quantity *)
C18_ImbalanceDefined ==
    \A bk \in CalcBooks :
        LET r == bk.imbalance_ratio
        IN /\ r.class = "finite"
           /\ r.den > 0
           /\ -r.den <= r.num /\ r.num <= r.den
           /\ (Vol5(calc.bids) = 0 /\ Vol5(calc.asks) = 0 => r.num = 0)

----------------------------------------------------------------------------
RECURSIVE SumOver(_, _)
(* the sum of the quantities of the levels at the indices in `idx` *)
SumOver(levels, idx) ==
    IF idx = {} THEN 0
    ELSE LET i == CHOOSE j \in idx : TRUE
         IN levels[i][2] + SumOver(levels, idx \ {i})

(* the level lies within the relative offset Depths[i] / DepthScale of the
   mid, on its side of it or beyond the mid towards the other side *)
Within(l, mid2, i, is_ask) ==
    IF is_ask
    THEN (2 * l[1] - mid2) * DepthScale <= mid2 * Depths[i]
    ELSE (mid2 - 2 * l[1]) * DepthScale <= mid2 * Depths[i]

(* the buckets of one side are non-decreasing and each holds the quantity of
   the levels within its offset *)
BucketsRight(buckets, levels, mid2, is_ask) ==
    /\ Len(buckets) = Len(Depths)
    /\ \A i \in 1..Len(buckets) :
         buckets[i].cumulative_quantity =
            SumOver(levels, {j \in 1..Len(levels) : Within(levels[j], mid2, i, is_ask)})
    /\ \A i \in 1..(Len(buckets) - 1) :
         buckets[i].cumulative_quantity <= buckets[i + 1].cumulative_quantity

(* C19: for levels with non-negative quantities and a positive mid, the
   buckets normalize_to_depths returns (either copy, either side) have
   cumulative quantities that do not decrease along the depth offsets, and
   the quantity of each bucket is the sum of the quantities of the levels it
   takes in: asks priced at or below mid * (1 + d), bids at or above
   mid * (1 - d) *)
C19_BucketsMonotone ==
    \A bk \in CalcBooks :
        /\ bk.mid2 > 0
        /\ BucketsRight(bk.bids, ParseLevels(calc.bids).levels, bk.mid2, FALSE)
        /\ BucketsRight(bk.asks, ParseLevels(calc.asks).levels, bk.mid2, TRUE)

(* both copies have run on a book whose buckets grow with the depth *)
C19_Witness ==
    /\ calc.ingest # <<>>
    /\ calc.rest # <<>>
    /\ Cardinality(CalcBooks) >= 1
    /\ \A bk \in CalcBooks :
         /\ 0 < bk.bids[1].cumulative_quantity
         /\ bk.bids[1].cumulative_quantity < bk.bids[Len(Depths)].cumulative_quantity
         /\ 0 < bk.asks[1].cumulative_quantity
         /\ bk.asks[1].cumulative_quantity < bk.asks[Len(Depths)].cumulative_quantity

----------------------------------------------------------------------------
(* C20: given the same raw levels and the same reading of the clock,
   process_message and process_rest_snapshot come to the same end: the same
   panic or error, or the same object, i.e. the same key and a record with
   the same truncation to the first twenty levels, the same mid, spread,
   imbalance and buckets *)
C20_SameRecord ==
    calc.ingest # <<>> /\ calc.rest # <<>> => calc.ingest[1] = calc.rest[1]

(* both have built a record from sides longer than twenty levels *)
C20_Witness ==
    /\ calc.ingest # <<>>
    /\ calc.rest # <<>>
    /\ Len(calc.bids) > TakeLevels
    /\ Len(calc.asks) > TakeLevels
    /\ calc.ingest[1].tag = "put"
    /\ calc.rest[1].tag = "put"
    /\ calc.rest[1].obj[1].book.imbalance_ratio.class = "finite"
    /\ calc.rest[1].obj[1].book.spread > 0
    /\ calc.rest[1].obj[1].book.bids[Len(Depths)].cumulative_quantity > 0

----------------------------------------------------------------------------
(* The ingest Lambda under a scheduler that runs it: the handler's own steps
   are taken when they can be, the store and the connection answer, and
   time passes.  The feed is not obliged to deliver anything: ReadFrame,
   ReadErr and ReadEnd are the peer's to take or not. *)
SpecLive ==
    /\ Init
    /\ [][Next]_vars
    /\ WF_vars(Tick)
    /\ WF_vars(ConnectOk \/ ConnectErr)
    /\ WF_vars(Process)
    /\ WF_vars(PutOk \/ PutErr)
    /\ WF_vars(Sleep)

(* C21: a wait for the next frame does not last forever: when the feed
   delivers neither a frame nor an error, the wait ends by a timeout and the
   handler leaves read.next() *)
C21_ReadTimesOut == (pc = "read") ~> (pc # "read")

----------------------------------------------------------------------------
(* C22: a frame causes one put at most, and only a frame that
   process_message has decoded and encoded causes one.  A frame that fails
   with a JSON or an encoding error hands nothing to put_object and goes to
   the sleep with the store as it was; a put is begun only by the
   processing of a frame and ends with nothing left to put; and the set of
   keys changes only when a put succeeds, by the one key of that put *)
C22_OnePutPerFrame ==
    /\ [][Processes /\ outcome' \in {"JsonError", "AvroError"}
            => pc' = "sleep" /\ pending' = <<>> /\ store' = store]_vars
    /\ [](pc = "put" => outcome = "none" /\ Len(pending) = 1)
    /\ [][pc' = "put" /\ pc # "put" => Processes]_vars
    /\ [][pc = "put" /\ pc' # "put" => pc' \in {"read", "sleep"} /\ pending' = <<>>]_vars
    /\ [][Keys(store') # Keys(store)
            => /\ pc = "put"
               /\ outcome' = "Ok"
               /\ pending[1].key \notin Keys(store)
               /\ Keys(store') = Keys(store) \cup {pending[1].key}]_vars

(* two frames have been stored and a third has failed to decode *)
C22_Witness ==
    /\ pc = "sleep"
    /\ outcome = "JsonError"
    /\ pending = <<>>
    /\ Cardinality(Keys(store)) = 2

----------------------------------------------------------------------------
(* the target prices of one side leave the mid in the order of the offsets:
   upwards for asks, downwards for bids; mid2 * DepthScale is the mid on the
   scale of the targets *)
TargetsOrdered(buckets, mid2, is_ask) ==
    /\ \A i \in 1..Len(buckets) :
         IF is_ask THEN buckets[i].target_price > mid2 * DepthScale
         ELSE buckets[i].target_price < mid2 * DepthScale
    /\ \A i \in 1..(Len(buckets) - 1) :
         IF is_ask THEN buckets[i].target_price < buckets[i + 1].target_price
         ELSE buckets[i].target_price > buckets[i + 1].target_price

(* C23: every record built, by either Lambda, has exactly 5 bid buckets and
   5 ask buckets whatever the number of levels of the input, and with a
   positive mid the ask targets increase strictly and lie above the mid,
   the bid targets decrease strictly and lie below it *)
C23_FiveOrderedBuckets ==
    \A bk \in CalcBooks :
        /\ Len(bk.bids) = 5
        /\ Len(bk.asks) = 5
        /\ bk.mid2 > 0 => /\ TargetsOrdered(bk.bids, bk.mid2, FALSE)
                          /\ TargetsOrdered(bk.asks, bk.mid2, TRUE)

(* both Lambdas have built the record of a book with twenty bid levels kept
   and a single ask level *)
C23_Witness ==
    /\ calc.ingest # <<>>
    /\ calc.rest # <<>>
    /\ Len(ParseLevels(calc.bids).levels) = TakeLevels
    /\ Len(calc.asks) = 1
    /\ {r.tag : r \in CalcResults} = {"put"}
    /\ \A bk \in CalcBooks : bk.mid2 > 0

====
